---- MODULE Spec2Model ----
(***************************************************************************)
(* State-machine model of codes/dataloader.py (AutoETER):                  *)
(*   TrainDataset, TestDataset and BidirectionalOneShotIterator.           *)
(* Python indices are 0-based; sequences here are 1-based, so list slot i  *)
(* of the code is element i+1 of the sequence that models it.              *)
(***************************************************************************)
EXTENDS Integers, Sequences, FiniteSets, TLC

(***************************************************************************)
(* Bounds of the model.                                                    *)
(***************************************************************************)
\* largest number of pulls made on the alternating iterator
MaxStep == 6
\* largest number of batches of an underlying dataloader (0 = empty loader)
MaxLen == 3
\* number of entities of the generated datasets (ids 0..NEntity-1)
NEntity == 2
\* number of relations of the generated datasets (ids 0..NRelation-1)
NRelation == 2
\* largest number of facts of a generated fact list
MaxFacts == 2
\* largest negative_sample_size and pair_sample_size
MaxSample == 1
\* largest number of path candidates of an example, and largest max_n_cand
MaxCand == 2
\* largest length of a candidate path, and largest max_steps
MaxPathLen == 2

VARIABLES
    \* ---- TrainDataset / TestDataset: the fields __init__ sets ----
    cls,                  \* "TrainDataset" | "TestDataset" | "none"
    triples,              \* self.triples
    triple_set,           \* self.triple_set
    nentity,              \* self.nentity
    nrelation,            \* self.nrelation
    negative_sample_size, \* self.negative_sample_size
    pair_sample_size,     \* self.pair_sample_size
    mode,                 \* self.mode
    count,                \* self.count
    true_head,            \* self.true_head
    true_tail,            \* self.true_tail
    rel_head,             \* self.rel_head
    rel_tail,             \* self.rel_tail
    multi_path,           \* self.multi_path
    path_probs,           \* self.path_probs: per example, a list of [path, prob]
    path_confidence,      \* self.path_confidence: (path_str, relation) -> confidence
    max_n_cand,           \* self.max_n_cand
    max_steps,            \* self.max_steps
    in1d_impl,            \* which of numpy's two in1d algorithms the build runs
    \* ---- the frame of one __getitem__ call ----
    pc,                   \* "idle" | "neg" | "negrel" | "pairs" | "pospair" | "done"
    outcome,              \* "none" | "returned" | the exception raised
    idx,                  \* the index asked for (1-based here)
    positive_sample,
    subsampling_weight,   \* the sum of the two counts (before sqrt(1/.))
    negative_sample_list, \* the concatenation of the arrays appended so far
    negative_sample,
    weak_positive,
    rel_paths_for_batch,
    probs_for_batch,
    negative_relation,
    negative_pair_list,   \* the concatenation of the arrays appended so far
    negative_pair_sample,
    positive_pair_sample,
    filter_bias,
    \* ---- BidirectionalOneShotIterator ----
    dataloader_head,   \* number of batches of the head dataloader (batches are 0..n-1)
    dataloader_tail,   \* number of batches of the tail dataloader
    iterator,          \* [side -> position of that side's generator in its current pass]
    step,              \* self.step
    spc,               \* "ready" | "pulling": whether a __next__ call is in progress
    cur,               \* the side whose generator the running __next__ resumed
    data,              \* the batch last returned: [side, batch], batch = -1 before the first
    served             \* [side -> number of pulls that side has served]

streamVars == <<dataloader_head, dataloader_tail, iterator, step, spc, cur, data, served>>

fieldVars == <<cls, triples, triple_set, nentity, nrelation, negative_sample_size,
               pair_sample_size, mode, count, true_head, true_tail, rel_head, rel_tail,
               multi_path, path_probs, path_confidence, max_n_cand, max_steps, in1d_impl>>

frameVars == <<pc, outcome, idx, positive_sample, subsampling_weight,
               negative_sample_list, negative_sample, weak_positive,
               rel_paths_for_batch, probs_for_batch, negative_relation,
               negative_pair_list, negative_pair_sample, positive_pair_sample,
               filter_bias>>

vars == <<fieldVars, frameVars, streamVars>>

(***************************************************************************)
(* Generic helpers                                                         *)
(***************************************************************************)
Range(s) == {s[i] : i \in 1..Len(s)}

RECURSIVE Concat(_)
\* np.concatenate / list +=: the concatenation of a sequence of sequences
Concat(ss) == IF ss = <<>> THEN <<>> ELSE Head(ss) \o Concat(Tail(ss))

\* a[:n] of Python
Prefix(a, n) == SubSeq(a, 1, IF n < Len(a) THEN n ELSE Len(a))

\* a[mask] of numpy: the entries of a whose mask bit is set, in order
RECURSIVE Select(_, _)
Select(a, mask) ==
    IF a = <<>> THEN <<>>
    ELSE (IF Head(mask) THEN <<Head(a)>> ELSE <<>>) \o Select(Tail(a), Tail(mask))

RECURSIVE SetToSeq(_)
\* np.array(list(set(..))): the members of a set in ascending order
SetToSeq(S) ==
    IF S = {} THEN <<>>
    ELSE LET m == CHOOSE x \in S : \A y \in S : x <= y IN <<m>> \o SetToSeq(S \ {m})

\* sequences over S of length lo..hi
SeqsOf(S, lo, hi) == UNION {[1..n -> S] : n \in lo..hi}

(***************************************************************************)
(* Facts and the indexes TrainDataset.__init__ builds from them            *)
(***************************************************************************)
Entities == 0..(NEntity - 1)
Relations == 0..(NRelation - 1)
Facts == Entities \X Relations \X Entities
FactLists == SeqsOf(Facts, 1, MaxFacts)

\* the worked scenario of the specification (3 entities, 2 relations)
Scenario == << <<0, 0, 1>>, <<1, 0, 2>>, <<2, 1, 0>> >>

\* lines 39, 282: the key of the inverse relation is -relation-1
InverseRelation(relation) == 0 - relation - 1

\* mutant: a repeated key is reset to the floor instead of incremented
CountKey_reset(tbl, key, start) ==
    IF key \notin DOMAIN tbl THEN tbl @@ (key :> start)
    ELSE [tbl EXCEPT ![key] = start]

\* lines 277-280 / 282-285: first sight of a key stores `start`, later ones add 1
CountKey(tbl, key, start) ==
    IF key \notin DOMAIN tbl THEN tbl @@ (key :> start)
    ELSE [tbl EXCEPT ![key] = @ + 1]

RECURSIVE CountLoop(_, _, _)
\* line 276: the loop over the facts, in list order
CountLoop(tbl, facts, start) ==
    IF facts = <<>> THEN tbl
    ELSE LET f == Head(facts)
             c1 == CountKey(tbl, <<f[1], f[2]>>, start)
             c2 == CountKey(c1, <<f[3], InverseRelation(f[2])>>, start)
         IN CountLoop(c2, Tail(facts), start)

\* count_frequency's default floor
CountStart == 4

\* count_frequency(triples, start=4)
count_frequency(facts) == CountLoop(<<>>, facts, CountStart)

\* lines 299-304, 319-326: append v to the list stored under key
AppendAt(map, key, v) ==
    IF key \notin DOMAIN map THEN map @@ (key :> <<v>>)
    ELSE [map EXCEPT ![key] = Append(@, v)]

RECURSIVE TrueLoop(_, _)
\* get_true_head_and_tail, lines 298-304
TrueLoop(maps, facts) ==
    IF facts = <<>> THEN maps
    ELSE LET f == Head(facts) IN
         TrueLoop([true_tail |-> AppendAt(maps.true_tail, <<f[1], f[2]>>, f[3]),
                   true_head |-> AppendAt(maps.true_head, <<f[2], f[3]>>, f[1])],
                  Tail(facts))

\* lines 306-309: every list becomes the array of its distinct members
Deduplicate(map) == [k \in DOMAIN map |-> Range(map[k])]

\* get_true_head_and_tail(triples)
get_true_head_and_tail(facts) ==
    LET m == TrueLoop([true_tail |-> <<>>, true_head |-> <<>>], facts) IN
    [true_head |-> Deduplicate(m.true_head), true_tail |-> Deduplicate(m.true_tail)]

RECURSIVE RelLoop(_, _)
\* get_relation2headtail, lines 318-326
RelLoop(maps, facts) ==
    IF facts = <<>> THEN maps
    ELSE LET f == Head(facts) IN
         RelLoop([rel_head |-> AppendAt(maps.rel_head, f[2], f[1]),
                  rel_tail |-> AppendAt(maps.rel_tail, f[2], f[3])],
                 Tail(facts))

\* get_relation2headtail(triples)
get_relation2headtail(facts) ==
    LET m == RelLoop([rel_head |-> <<>>, rel_tail |-> <<>>], facts) IN
    [rel_head |-> Deduplicate(m.rel_head), rel_tail |-> Deduplicate(m.rel_tail)]

(***************************************************************************)
(* numpy's in1d(ar1, ar2, assume_unique, invert=True)                      *)
(***************************************************************************)
\* numpy answers in1d by a lookup table / a pass per member of ar2 (exact for
\* any input), or by one stable sort of ar1 followed by ar2.  With
\* assume_unique=True the sort path skips deduplication and reports an entry of
\* ar1 as absent from ar2 only when its successor in the sorted order differs:
\* of several equal entries of ar1 only the last can be reported absent.
In1dImpls == {"table", "sort"}

\* mutant: the mask without invert=True (True where the entry IS in ar2)
In1dInvert_notInverted(ar1, ar2, assume_unique, impl) ==
    [i \in 1..Len(ar1) |-> ar1[i] \in ar2]

\* np.in1d(ar1, ar2, assume_unique=.., invert=True), lines 48-53, 55-60,
\* 108-113, 129-134, 136-141; ar2 is always an array of distinct values
In1dInvert(ar1, ar2, assume_unique, impl) ==
    [i \in 1..Len(ar1) |->
        /\ ar1[i] \notin ar2
        /\ (impl = "sort" /\ assume_unique) =>
               \A j \in (i + 1)..Len(ar1) : ar1[j] # ar1[i]]

\* np.random.randint(high, size=n): every array of n ids below high
RandInt(high, n) == [1..n -> 0..(high - 1)]

Modes == {"head-batch", "tail-batch"}

\* the values of `mode` the datasets are built with; "both" is not a supported one
ModeInputs == Modes \cup {"both"}

\* lines 50 / 57: the array the entity negatives are filtered against
TrueEntities(m, fact) ==
    IF m = "head-batch" THEN true_head[<<fact[2], fact[3]>>]
                        ELSE true_tail[<<fact[1], fact[2]>>]

\* lines 131 / 138, 158-169: the relation's entity pool on the side of the mode
EntityPool(m, relation) ==
    IF m = "head-batch" THEN rel_head[relation] ELSE rel_tail[relation]

(***************************************************************************)
(* Path evidence (lines 67-103)                                            *)
(***************************************************************************)
DigitChars == <<"0", "1", "2", "3", "4", "5", "6", "7", "8", "9">>

RECURSIVE IntToStr(_)
\* str(n) for n >= 0, as its sequence of characters
IntToStr(n) ==
    IF n < 10 THEN <<DigitChars[n + 1]>>
    ELSE IntToStr(n \div 10) \o <<DigitChars[(n % 10) + 1]>>

RECURSIVE PathStr(_)
\* line 72: ' '.join(map(str, rel_path))
PathStr(rel_path) ==
    IF rel_path = <<>> THEN <<>>
    ELSE IF Len(rel_path) = 1 THEN IntToStr(rel_path[1])
    ELSE IntToStr(Head(rel_path)) \o <<" ">> \o PathStr(Tail(rel_path))

\* lines 75-79 in integers: prob and confidence are given in hundredths, and
\* prob * (0.99 * confidence + 0.01) is kept in units of 10^-6
Reliability(prob, confidence) == prob * (99 * confidence + 100)

\* lines 75-77: the confidence of (path_str, relation), 0.0 when the table lacks it
Confidence(table, rel_path, relation) ==
    IF <<PathStr(rel_path), relation>> \in DOMAIN table
    THEN table[<<PathStr(rel_path), relation>>] ELSE 0

\* lines 70-80: rel_paths, each entry the path followed by its reliability
RelPaths(cands, table, relation) ==
    [i \in 1..Len(cands) |->
        Append(cands[i].path,
               Reliability(cands[i].prob, Confidence(table, cands[i].path, relation)))]

\* mutant: the exclusion set is built from no path at all
WeakPositive_none(cands) == <<>>

\* line 73: weak_positive, the concatenation of every candidate's path
WeakPositive(cands) == Concat([i \in 1..Len(cands) |-> cands[i].path])

Last(s) == s[Len(s)]

\* where x goes in a list sorted by descending last entry so that equal keys
\* keep their order of arrival
InsertDesc(sorted, x) ==
    LET n == Cardinality({i \in 1..Len(sorted) : Last(sorted[i]) >= Last(x)}) IN
    SubSeq(sorted, 1, n) \o <<x>> \o SubSeq(sorted, n + 1, Len(sorted))

RECURSIVE SortDescFrom(_, _)
SortDescFrom(sorted, rest) ==
    IF rest = <<>> THEN sorted
    ELSE SortDescFrom(InsertDesc(sorted, Head(rest)), Tail(rest))

\* line 81: rel_paths.sort(key=lambda x: x[-1], reverse=True), a stable sort
SortDesc(rel_paths) == SortDescFrom(<<>>, rel_paths)

\* mutant: a short path is left unpadded
PadOrCut_noPad(rel_path, steps) == Prefix(rel_path, steps)

\* lines 92-95: right-pad with -1, or cut, to `steps` slots
PadOrCut(rel_path, steps) ==
    IF Len(rel_path) < steps
    THEN rel_path \o [i \in 1..(steps - Len(rel_path)) |-> -1]
    ELSE Prefix(rel_path, steps)

\* lines 83-103: the path tensor and the reliability array of one example
PathsForBatch(rel_paths, n_cand, steps) ==
    IF Len(rel_paths) = 0
    THEN [paths |-> [i \in 1..n_cand |-> [j \in 1..steps |-> -1]],
          probs |-> [i \in 1..n_cand |-> 0]]
    ELSE LET kept == IF Len(rel_paths) < n_cand THEN Len(rel_paths) ELSE n_cand
             rows == [i \in 1..kept |->
                         PadOrCut(SubSeq(rel_paths[i], 1, Len(rel_paths[i]) - 1), steps)]
             rels == [i \in 1..kept |-> Last(rel_paths[i])]
         IN IF kept # n_cand
            THEN [paths |-> rows \o [i \in 1..(n_cand - kept) |-> [j \in 1..steps |-> -1]],
                  probs |-> rels \o [i \in 1..(n_cand - kept) |-> 0]]
            ELSE [paths |-> rows, probs |-> rels]

\* line 107: the number of relation ids drawn per round
NegRelDraw == 4

\* line 110: set([relation] + weak_positive)
RelationExclusion(relation, weak) == {relation} \cup Range(weak)

(***************************************************************************)
(* Pair sampling (lines 157-169)                                           *)
(***************************************************************************)
\* np.tile(a, n)
Tile(a, n) == Concat([i \in 1..n |-> a])

\* lines 158-162 / 165-169: the array np.random.choice draws from
ChoiceSource(pool, k) ==
    IF Len(pool) < k THEN Tile(pool, k) ELSE pool

(***************************************************************************)
(* TestDataset.__getitem__ (lines 346-366)                                 *)
(***************************************************************************)
\* mutant: a filtered slot keeps the enumerated candidate
CandidateRow_keepsCandidate(m, fact, S, e) ==
    IF m = "head-batch"
    THEN (IF <<e, fact[2], fact[3]>> \notin S THEN <<0, e>> ELSE <<-1, e>>)
    ELSE (IF <<fact[1], fact[2], e>> \notin S THEN <<0, e>> ELSE <<-1, e>>)

\* lines 350-351 / 354-355: the (flag, candidate) pair of entity e
CandidateRow(m, fact, S, e) ==
    IF m = "head-batch"
    THEN (IF <<e, fact[2], fact[3]>> \notin S THEN <<0, e>> ELSE <<-1, fact[1]>>)
    ELSE (IF <<fact[1], fact[2], e>> \notin S THEN <<0, e>> ELSE <<-1, fact[3]>>)

\* mutant: the slot of the true entity is not overwritten
ForceTrue_skipped(tmp, m, fact) == tmp

\* lines 352 / 356: tmp[head] = (0, head), tmp[tail] = (0, tail)
ForceTrue(tmp, m, fact) ==
    IF m = "head-batch"
    THEN [tmp EXCEPT ![fact[1] + 1] = <<0, fact[1]>>]
    ELSE [tmp EXCEPT ![fact[3] + 1] = <<0, fact[3]>>]

\* lines 349-356: tmp
TestRows(m, fact, S, n) ==
    ForceTrue([i \in 1..n |-> CandidateRow(m, fact, S, i - 1)], m, fact)

(***************************************************************************)
(* Construction                                                            *)
(***************************************************************************)
\* multi_path=None
NoPaths == [given |-> FALSE, path_probs |-> <<>>, path_confidence |-> <<>>,
            max_n_cand |-> 0, max_steps |-> 0]

\* TrainDataset.__init__, lines 13-30
TrainDataset(tr, ne, nr, nss, pss, m, mp, impl) ==
    /\ cls = "TrainDataset"
    /\ triples = tr
    /\ triple_set = Range(tr)
    /\ nentity = ne
    /\ nrelation = nr
    /\ negative_sample_size = nss
    /\ pair_sample_size = pss
    /\ mode = m
    /\ count = count_frequency(tr)
    /\ true_head = get_true_head_and_tail(tr).true_head
    /\ true_tail = get_true_head_and_tail(tr).true_tail
    /\ rel_head = get_relation2headtail(tr).rel_head
    /\ rel_tail = get_relation2headtail(tr).rel_tail
    /\ multi_path = mp.given
    /\ path_probs = mp.path_probs
    /\ path_confidence = mp.path_confidence
    /\ max_n_cand = mp.max_n_cand
    /\ max_steps = mp.max_steps
    /\ in1d_impl = impl

\* TestDataset.__init__, lines 335-341
TestDataset(tr, all_true_triples, ne, nr, m) ==
    /\ cls = "TestDataset"
    /\ triples = tr
    /\ triple_set = Range(all_true_triples)
    /\ nentity = ne
    /\ nrelation = nr
    /\ mode = m
    /\ negative_sample_size = 0
    /\ pair_sample_size = 0
    /\ count = <<>>
    /\ true_head = <<>>
    /\ true_tail = <<>>
    /\ rel_head = <<>>
    /\ rel_tail = <<>>
    /\ multi_path = FALSE
    /\ path_probs = <<>>
    /\ path_confidence = <<>>
    /\ max_n_cand = 0
    /\ max_steps = 0
    /\ in1d_impl = "table"

\* no dataset object (the iterator is modelled over batch numbers)
NoDataset ==
    /\ cls = "none"
    /\ triples = <<>>
    /\ triple_set = {}
    /\ nentity = 0
    /\ nrelation = 0
    /\ mode = "head-batch"
    /\ negative_sample_size = 0
    /\ pair_sample_size = 0
    /\ count = <<>>
    /\ true_head = <<>>
    /\ true_tail = <<>>
    /\ rel_head = <<>>
    /\ rel_tail = <<>>
    /\ multi_path = FALSE
    /\ path_probs = <<>>
    /\ path_confidence = <<>>
    /\ max_n_cand = 0
    /\ max_steps = 0
    /\ in1d_impl = "table"

\* no __getitem__ call has been made
FrameIdle ==
    /\ pc = "idle"
    /\ outcome = "none"
    /\ idx = 0
    /\ positive_sample = <<>>
    /\ subsampling_weight = 0
    /\ negative_sample_list = <<>>
    /\ negative_sample = <<>>
    /\ weak_positive = <<>>
    /\ rel_paths_for_batch = <<>>
    /\ probs_for_batch = <<>>
    /\ negative_relation = <<>>
    /\ negative_pair_list = <<>>
    /\ negative_pair_sample = <<>>
    /\ positive_pair_sample = <<>>
    /\ filter_bias = <<>>

(***************************************************************************)
(* TrainDataset.__getitem__ (lines 35-241)                                 *)
(***************************************************************************)
\* the call ends by raising exc
Raise(exc) ==
    /\ pc' = "done"
    /\ outcome' = exc

\* lines 36-43: read the fact and look both counts up
GetItem ==
    /\ cls = "TrainDataset"
    /\ pc = "idle"
    /\ \E i \in 1..Len(triples) :
        LET f == triples[i]
            k1 == <<f[1], f[2]>>
            k2 == <<f[3], InverseRelation(f[2])>>
        IN /\ idx' = i
           /\ positive_sample' = f
           /\ IF k1 \in DOMAIN count /\ k2 \in DOMAIN count
              THEN /\ subsampling_weight' = count[k1] + count[k2]
                   /\ pc' = "neg"
                   /\ outcome' = outcome
              ELSE /\ subsampling_weight' = subsampling_weight
                   /\ Raise("KeyError")
    /\ UNCHANGED <<negative_sample_list, negative_sample, weak_positive,
                   rel_paths_for_batch, probs_for_batch, negative_relation,
                   negative_pair_list, negative_pair_sample, positive_pair_sample,
                   filter_bias>>
    /\ UNCHANGED <<fieldVars, streamVars>>

\* lines 45-65, one round of the loop with the array `draw` drawn at line 46
NegRoundWith(draw) ==
    /\ cls = "TrainDataset"
    /\ pc = "neg"
    /\ Len(negative_sample_list) < negative_sample_size
    /\ mode \in Modes
    /\ LET mask == In1dInvert(draw, TrueEntities(mode, positive_sample), TRUE, in1d_impl)
       IN negative_sample_list' = negative_sample_list \o Select(draw, mask)
    /\ UNCHANGED <<pc, outcome, idx, positive_sample, subsampling_weight,
                   negative_sample, weak_positive, rel_paths_for_batch,
                   probs_for_batch, negative_relation, negative_pair_list,
                   negative_pair_sample, positive_pair_sample, filter_bias>>
    /\ UNCHANGED <<fieldVars, streamVars>>

NegRound == \E draw \in RandInt(nentity, 2 * negative_sample_size) : NegRoundWith(draw)

\* lines 61-62: the first round of the loop raises for an unsupported mode
NegRaise ==
    /\ cls = "TrainDataset"
    /\ pc = "neg"
    /\ Len(negative_sample_list) < negative_sample_size
    /\ mode \notin Modes
    /\ Raise("ValueError")
    /\ UNCHANGED <<idx, positive_sample, subsampling_weight, negative_sample_list,
                   negative_sample, weak_positive, rel_paths_for_batch,
                   probs_for_batch, negative_relation, negative_pair_list,
                   negative_pair_sample, positive_pair_sample, filter_bias>>
    /\ UNCHANGED <<fieldVars, streamVars>>

\* lines 119 / 148: np.concatenate(list)[:size]
Truncate(a, k) == Prefix(a, k)

\* mutant: np.concatenate accepts an empty list of arrays
CanConcatenate_always(size) == TRUE

\* lines 119 / 148: np.concatenate raises ValueError on an empty list of arrays.
\* The loop before it appends one array per round and runs at least one round
\* exactly when the configured size is positive.
CanConcatenate(size) == size > 0

\* lines 119-124: cut the entity negatives to size and go on to the pair loop
EnterPairs ==
    IF CanConcatenate(negative_sample_size)
    THEN /\ negative_sample' = Truncate(negative_sample_list, negative_sample_size)
         /\ pc' = "pairs"
         /\ outcome' = outcome
    ELSE /\ negative_sample' = negative_sample
         /\ Raise("ValueError")

\* line 45 false, line 67 false: the loop is left and no path evidence is built
NegExit ==
    /\ cls = "TrainDataset"
    /\ pc = "neg"
    /\ Len(negative_sample_list) >= negative_sample_size
    /\ ~multi_path
    /\ EnterPairs
    /\ UNCHANGED <<idx, positive_sample, subsampling_weight,
                   negative_sample_list, weak_positive, rel_paths_for_batch,
                   probs_for_batch, negative_relation, negative_pair_list,
                   negative_pair_sample, positive_pair_sample, filter_bias>>
    /\ UNCHANGED <<fieldVars, streamVars>>

\* line 45 false, lines 67-103: the loop is left and the path evidence is built
BuildPaths ==
    /\ cls = "TrainDataset"
    /\ pc = "neg"
    /\ Len(negative_sample_list) >= negative_sample_size
    /\ multi_path
    /\ LET cands == path_probs[idx]
           rel_paths == SortDesc(RelPaths(cands, path_confidence, positive_sample[2]))
           batch == PathsForBatch(rel_paths, max_n_cand, max_steps)
       IN /\ weak_positive' = WeakPositive(cands)
          /\ rel_paths_for_batch' = batch.paths
          /\ probs_for_batch' = batch.probs
    /\ pc' = "negrel"
    /\ UNCHANGED <<outcome, idx, positive_sample, subsampling_weight,
                   negative_sample_list, negative_sample, negative_relation,
                   negative_pair_list, negative_pair_sample, positive_pair_sample,
                   filter_bias>>
    /\ UNCHANGED <<fieldVars, streamVars>>

\* lines 106-117, one round of the loop with the array `draw` drawn at line 107
NegRelRoundWith(draw) ==
    /\ cls = "TrainDataset"
    /\ pc = "negrel"
    /\ LET mask == In1dInvert(draw, RelationExclusion(positive_sample[2], weak_positive),
                              TRUE, in1d_impl)
           kept == Select(draw, mask)
       IN IF Len(kept) >= 1
          THEN /\ negative_relation' = Prefix(kept, 1)
               /\ EnterPairs
          ELSE UNCHANGED <<negative_relation, negative_sample, pc, outcome>>
    /\ UNCHANGED <<idx, positive_sample, subsampling_weight,
                   negative_sample_list, weak_positive, rel_paths_for_batch,
                   probs_for_batch, negative_pair_list, negative_pair_sample,
                   positive_pair_sample, filter_bias>>
    /\ UNCHANGED <<fieldVars, streamVars>>

NegRelRound == \E draw \in RandInt(nrelation, NegRelDraw) : NegRelRoundWith(draw)

\* lines 126-146, one round of the loop with the array `draw` drawn at line 127.
\* The raise of lines 142-143 is dead code: an unsupported mode has already
\* raised at line 62 or at line 119.
PairRoundWith(draw) ==
    /\ cls = "TrainDataset"
    /\ pc = "pairs"
    /\ Len(negative_pair_list) < pair_sample_size
    /\ mode \in Modes
    /\ LET mask == In1dInvert(draw, EntityPool(mode, positive_sample[2]), FALSE, in1d_impl)
       IN negative_pair_list' = negative_pair_list \o Select(draw, mask)
    /\ UNCHANGED <<pc, outcome, idx, positive_sample, subsampling_weight,
                   negative_sample_list, negative_sample, weak_positive,
                   rel_paths_for_batch, probs_for_batch, negative_relation,
                   negative_pair_sample, positive_pair_sample, filter_bias>>
    /\ UNCHANGED <<fieldVars, streamVars>>

PairRound == \E draw \in RandInt(nentity, 2 * pair_sample_size) : PairRoundWith(draw)

\* line 126 false, lines 148-155; as at line 119, np.concatenate raises
\* ValueError when no round has appended an array
PairExit ==
    /\ cls = "TrainDataset"
    /\ pc = "pairs"
    /\ Len(negative_pair_list) >= pair_sample_size
    /\ IF CanConcatenate(pair_sample_size)
       THEN /\ negative_pair_sample' = Truncate(negative_pair_list, pair_sample_size)
            /\ pc' = "pospair"
            /\ outcome' = outcome
       ELSE /\ negative_pair_sample' = negative_pair_sample
            /\ Raise("ValueError")
    /\ UNCHANGED <<idx, positive_sample, subsampling_weight,
                   negative_sample_list, negative_sample, weak_positive,
                   rel_paths_for_batch, probs_for_batch, negative_relation,
                   negative_pair_list, positive_pair_sample, filter_bias>>
    /\ UNCHANGED <<fieldVars, streamVars>>

\* lines 157-169 and 235-241: draw the positive pairs and return the example.
\* Line 157 is reached only past the pair loop, so only with a supported mode.
PositivePairs ==
    /\ cls = "TrainDataset"
    /\ pc = "pospair"
    /\ mode \in Modes
    /\ LET src == ChoiceSource(SetToSeq(EntityPool(mode, positive_sample[2])),
                               pair_sample_size)
       IN \E pick \in [1..pair_sample_size -> 1..Len(src)] :
              positive_pair_sample' = [i \in 1..pair_sample_size |-> src[pick[i]]]
    /\ pc' = "done"
    /\ outcome' = "returned"
    /\ UNCHANGED <<idx, positive_sample, subsampling_weight, negative_sample_list,
                   negative_sample, weak_positive, rel_paths_for_batch,
                   probs_for_batch, negative_relation, negative_pair_list,
                   negative_pair_sample, filter_bias>>
    /\ UNCHANGED <<fieldVars, streamVars>>

(***************************************************************************)
(* TestDataset.__getitem__ (lines 346-366)                                 *)
(***************************************************************************)
\* lines 347-356, 360-366
TestGetItem ==
    /\ cls = "TestDataset"
    /\ pc = "idle"
    /\ mode \in Modes
    /\ \E i \in 1..Len(triples) :
        LET tmp == TestRows(mode, triples[i], triple_set, nentity) IN
        /\ idx' = i
        /\ positive_sample' = triples[i]
        /\ filter_bias' = [j \in 1..Len(tmp) |-> tmp[j][1]]
        /\ negative_sample' = [j \in 1..Len(tmp) |-> tmp[j][2]]
    /\ pc' = "done"
    /\ outcome' = "returned"
    /\ UNCHANGED <<subsampling_weight, negative_sample_list, weak_positive,
                   rel_paths_for_batch, probs_for_batch, negative_relation,
                   negative_pair_list, negative_pair_sample, positive_pair_sample>>
    /\ UNCHANGED <<fieldVars, streamVars>>

\* lines 347, 357-358
TestRaise ==
    /\ cls = "TestDataset"
    /\ pc = "idle"
    /\ mode \notin Modes
    /\ \E i \in 1..Len(triples) :
        /\ idx' = i
        /\ positive_sample' = triples[i]
    /\ Raise("ValueError")
    /\ UNCHANGED <<subsampling_weight, negative_sample_list, negative_sample,
                   weak_positive, rel_paths_for_batch, probs_for_batch,
                   negative_relation, negative_pair_list, negative_pair_sample,
                   positive_pair_sample, filter_bias>>
    /\ UNCHANGED <<fieldVars, streamVars>>

\* the iterator is not in use
StreamIdle ==
    /\ dataloader_head = 0
    /\ dataloader_tail = 0
    /\ iterator = <<>>
    /\ step = 0
    /\ spc = "ready"
    /\ cur = "head"
    /\ data = <<>>
    /\ served = <<>>

Sides == {"head", "tail"}

Other(side) == IF side = "head" THEN "tail" ELSE "head"

SourceLen(side) == IF side = "head" THEN dataloader_head ELSE dataloader_tail

(***************************************************************************)
(* BidirectionalOneShotIterator                                            *)
(***************************************************************************)
\* mutant: the parity test of __next__ inverted
SideOfStep_swapped(s) == IF s % 2 = 0 THEN "tail" ELSE "head"

\* __next__, lines 384-387: an even step resumes iterator_head, an odd one iterator_tail
SideOfStep(s) == IF s % 2 = 0 THEN "head" ELSE "tail"

\* one_shot_iterator, lines 395-397: one attempt of the for loop at position p of
\* a loader of n batches: yield batch p, or (loader exhausted) start the next
\* pass of the enclosing `while True`
one_shot_iterator(p, n) ==
    IF p < n THEN [kind |-> "yield", batch |-> p, pos |-> p + 1]
             ELSE [kind |-> "restart", batch |-> -1, pos |-> 0]

\* mutant: both sides share one generator position
Resume_shared(its, side, p) == [s \in Sides |-> p]

\* lines 378-379: each side owns its generator; resuming one moves only its own position
Resume(its, side, p) == [its EXCEPT ![side] = p]

InitStream ==
    /\ dataloader_head \in 0..MaxLen
    /\ dataloader_tail \in 0..MaxLen
    /\ iterator = [s \in Sides |-> 0]
    /\ step = 0
    /\ spc = "ready"
    /\ cur = "head"
    /\ data = [side |-> "head", batch |-> -1]
    /\ served = [s \in Sides |-> 0]
    /\ NoDataset
    /\ FrameIdle

\* __next__ lines 383-387: count the pull and resume the generator of the chosen side
Pull ==
    /\ spc = "ready"
    /\ step < MaxStep
    /\ step' = step + 1
    /\ cur' = SideOfStep(step + 1)
    /\ spc' = "pulling"
    /\ UNCHANGED <<dataloader_head, dataloader_tail, iterator, data, served>>
    /\ UNCHANGED <<fieldVars, frameVars>>

\* lines 396-397 then 388: the resumed generator yields its next batch, __next__ returns it
Yield ==
    /\ spc = "pulling"
    /\ LET r == one_shot_iterator(iterator[cur], SourceLen(cur)) IN
        /\ r.kind = "yield"
        /\ iterator' = Resume(iterator, cur, r.pos)
        /\ data' = [side |-> cur, batch |-> r.batch]
        /\ served' = [served EXCEPT ![cur] = @ + 1]
    /\ spc' = "ready"
    /\ UNCHANGED <<dataloader_head, dataloader_tail, step, cur>>
    /\ UNCHANGED <<fieldVars, frameVars>>

\* lines 395-396: the loader is exhausted; `while True` iterates it again from its start
Restart ==
    /\ spc = "pulling"
    /\ LET r == one_shot_iterator(iterator[cur], SourceLen(cur)) IN
        /\ r.kind = "restart"
        /\ iterator' = Resume(iterator, cur, r.pos)
    /\ UNCHANGED <<dataloader_head, dataloader_tail, step, spc, cur, data, served>>
    /\ UNCHANGED <<fieldVars, frameVars>>

NextStream == Pull \/ Yield \/ Restart

\* the interpreter keeps running a generator that has been resumed
SpecStream ==
    InitStream /\ [][NextStream]_vars /\ WF_vars(Yield) /\ WF_vars(Restart)

(***************************************************************************)
(* Inputs and specifications                                               *)
(***************************************************************************)
\* n facts of relation 0 that share the tail 0 (heads 0, 1, ..) or the head 0
\* (tails 0, 1, ..): the true-entity set and the entity pool of every fact grow
\* with n until they cover every entity
HeadStar(n) == [i \in 1..n |-> <<(i - 1) % NEntity, 0, 0>>]
TailStar(n) == [i \in 1..n |-> <<0, 0, (i - 1) % NEntity>>]
\* n facts of relation 0 whose head and tail are both 0, 1, ..: the entity pools
\* grow with n while every true-entity set keeps a single member
Diagonal(n) == [i \in 1..n |-> <<(i - 1) % NEntity, 0, (i - 1) % NEntity>>]
StarLists ==
    UNION {{HeadStar(n), TailStar(n), Diagonal(n)} : n \in 1..MaxFacts}

\* a path bundle with the one candidate path rel_path for every example
OnePath(tr, rel_path) ==
    [given |-> TRUE,
     path_probs |-> [i \in 1..Len(tr) |-> << [path |-> rel_path, prob |-> 100] >>],
     path_confidence |-> <<>>,
     max_n_cand |-> 1,
     max_steps |-> 1]

\* the path of length n that walks the relation ids upwards from 0
StepPath(n) == [i \in 1..n |-> (i - 1) % NRelation]

\* ---- Spec: one __getitem__ call on a dataset over a star of facts ----
InitTrain ==
    /\ \E tr \in StarLists, m \in ModeInputs :
          \/ \E nss \in 0..MaxSample, pss \in 0..MaxSample, impl \in In1dImpls,
                mp \in {NoPaths, OnePath(tr, <<0>>)} :
                 TrainDataset(tr, NEntity, NRelation, nss, pss, m, mp, impl)
          \/ TestDataset(tr, tr, NEntity, NRelation, m)
    /\ FrameIdle
    /\ StreamIdle

NextTrain ==
    \/ GetItem
    \/ NegRound
    \/ NegRaise
    \/ NegExit
    \/ BuildPaths
    \/ NegRelRound
    \/ PairRound
    \/ PairExit
    \/ PositivePairs
    \/ TestGetItem
    \/ TestRaise

Spec == InitTrain /\ [][NextTrain]_vars

\* ---- SpecTest: one __getitem__ call on a TestDataset ----
InitTest ==
    /\ \E f \in Facts, all \in FactLists, m \in ModeInputs :
          TestDataset(<<f>>, all, NEntity, NRelation, m)
    /\ FrameIdle
    /\ StreamIdle

NextTest == TestGetItem \/ TestRaise

SpecTest == InitTest /\ [][NextTest]_vars

\* ---- SpecCount: the indexes of every fact list ----
\* every fact list under a configuration that samples nothing (the call looks
\* the counts up and then fails at line 119), and the scenario with one sample
InitCount ==
    /\ \/ \E tr \in FactLists :
              TrainDataset(tr, NEntity, NRelation, 0, 0, "head-batch", NoPaths, "table")
       \/ TrainDataset(Scenario, 3, 2, 1, 1, "head-batch", NoPaths, "table")
    /\ FrameIdle
    /\ StreamIdle

NextCount == GetItem \/ NegRound \/ NegExit \/ PairRound \/ PairExit \/ PositivePairs

SpecCount == InitCount /\ [][NextCount]_vars

\* ---- SpecMP: path evidence of a single-fact dataset ----
\* candidate paths: one per length, each of probability 1.0 (100 hundredths)
Candidates == {[path |-> StepPath(n), prob |-> 100] : n \in 0..MaxPathLen}
CandidateLists == SeqsOf(Candidates, 0, MaxCand)

\* the confidence table: full confidence (100 hundredths) in every non-empty
\* candidate path as evidence for relation 0, so that for relation 0 the sort
\* moves the empty paths behind the others
ConfidenceTable ==
    [k \in {<<PathStr(StepPath(n)), 0>> : n \in 1..MaxPathLen} |-> 100]

InitMP ==
    /\ \E r \in Relations, cands \in CandidateLists, n_cand \in 1..MaxCand,
          steps \in 1..MaxPathLen, impl \in In1dImpls :
          TrainDataset(<< <<0, r, 0>> >>, 2, NRelation, 1, 1, "head-batch",
                       [given |-> TRUE, path_probs |-> <<cands>>,
                        path_confidence |-> ConfidenceTable,
                        max_n_cand |-> n_cand, max_steps |-> steps],
                       impl)
    /\ FrameIdle
    /\ StreamIdle

NextMP ==
    \/ GetItem
    \/ NegRound
    \/ BuildPaths
    \/ NegRelRound
    \/ PairRound
    \/ PairExit
    \/ PositivePairs

SpecMP == InitMP /\ [][NextMP]_vars

\* ---- SpecFair: the three rejection loops under fair random draws ----
InitFair ==
    /\ \E tr \in StarLists, m \in Modes, size \in 0..MaxSample, impl \in In1dImpls :
          \/ TrainDataset(tr, NEntity, NRelation, size, 1, m, NoPaths, impl)
          \/ TrainDataset(tr, NEntity, NRelation, 1, size, m, NoPaths, impl)
          \/ \E n \in 0..MaxPathLen :
                 TrainDataset(tr, NEntity, NRelation, 1, 1, m, OnePath(tr, StepPath(n)), impl)
    /\ FrameIdle
    /\ StreamIdle

NextFair ==
    \/ GetItem
    \/ NegRound
    \/ NegExit
    \/ BuildPaths
    \/ NegRelRound
    \/ PairRound
    \/ PairExit
    \/ PositivePairs

\* a round whose draw holds an id outside the exclusion set
NegRoundGood ==
    /\ pc = "neg"
    /\ mode \in Modes
    /\ \E draw \in RandInt(nentity, 2 * negative_sample_size) :
           /\ Range(draw) \ TrueEntities(mode, positive_sample) # {}
           /\ NegRoundWith(draw)

NegRelRoundGood ==
    /\ pc = "negrel"
    /\ \E draw \in RandInt(nrelation, NegRelDraw) :
           /\ Range(draw) \ RelationExclusion(positive_sample[2], weak_positive) # {}
           /\ NegRelRoundWith(draw)

PairRoundGood ==
    /\ pc = "pairs"
    /\ mode \in Modes
    /\ \E draw \in RandInt(nentity, 2 * pair_sample_size) :
           /\ Range(draw) \ EntityPool(mode, positive_sample[2]) # {}
           /\ PairRoundWith(draw)

\* the interpreter keeps running the call, and a fair random generator does not
\* withhold forever the arrays that hold an id outside the exclusion set
SpecFair ==
    /\ InitFair
    /\ [][NextFair]_vars
    /\ WF_vars(GetItem \/ NegExit \/ BuildPaths \/ PairExit \/ PositivePairs)
    /\ WF_vars(NegRoundGood)
    /\ WF_vars(NegRelRoundGood)
    /\ WF_vars(PairRoundGood)

(***************************************************************************)
(* C1                                                                      *)
(***************************************************************************)
\* C1 (as stated): every pull of an odd step returns a head-side batch and every
\* pull of an even step a tail-side batch.
C1_HeadFirst ==
    (spc = "ready" /\ step >= 1) =>
        data.side = (IF step % 2 = 1 THEN "head" ELSE "tail")

\* C1 (amended): every pull of an odd step (the 1st, 3rd, ...) returns a batch of
\* the tail-side source and every pull of an even step (the 2nd, 4th, ...) a
\* batch of the head-side source, for every prefix of pulls.
C1_TailFirst ==
    (spc = "ready" /\ step >= 1) =>
        data.side = (IF step % 2 = 1 THEN "tail" ELSE "head")

\* four pulls have been served, two by each side
C1_Witness ==
    /\ spc = "ready"
    /\ step = 4
    /\ served["head"] = 2
    /\ served["tail"] = 2

(***************************************************************************)
(* C2                                                                      *)
(***************************************************************************)
\* the entity negatives have been cut to size (line 119 has run without raising)
NegativesCut ==
    /\ cls = "TrainDataset"
    /\ pc \in {"pairs", "pospair", "done"}
    /\ negative_sample_size > 0
    /\ mode \in Modes

\* C2: for every fact and each mode the entity-negative array has exactly
\* negative_sample_size ids, each in [0, nentity), and none of them completes a
\* fact of the training list under that mode (head-batch: (e,r,t); tail-batch:
\* (h,r,e)), whatever rounds were needed and after the overshoot is cut.
C2_NegativesAvoidTrueFacts ==
    NegativesCut =>
        /\ Len(negative_sample) = negative_sample_size
        /\ \A i \in 1..Len(negative_sample) :
            LET e == negative_sample[i] IN
            /\ e \in 0..(nentity - 1)
            /\ mode = "head-batch" =>
                   \A j \in 1..Len(triples) :
                       triples[j] # <<e, positive_sample[2], positive_sample[3]>>
            /\ mode = "tail-batch" =>
                   \A j \in 1..Len(triples) :
                       triples[j] # <<positive_sample[1], positive_sample[2], e>>

\* an example was returned whose negatives were cut from an overshooting round,
\* for a fact with two known true heads
C2_Witness ==
    /\ cls = "TrainDataset"
    /\ outcome = "returned"
    /\ mode = "head-batch"
    /\ negative_sample_size >= 1
    /\ Len(negative_sample_list) > negative_sample_size
    /\ Cardinality(TrueEntities(mode, positive_sample)) < nentity
    /\ triples = TailStar(2)

(***************************************************************************)
(* C7                                                                      *)
(***************************************************************************)
\* C7: with a mode other than 'head-batch' and 'tail-batch' every finished
\* __getitem__ call, training or evaluation, has ended in ValueError and
\* returned no example, whatever the configured sizes (zero included: the
\* ValueError is then the one np.concatenate raises at line 119), and no such
\* call gets past the entity negatives.
C7_InvalidModeIsValueError ==
    (cls \in {"TrainDataset", "TestDataset"} /\ mode \notin Modes) =>
        /\ pc \in {"idle", "neg", "negrel", "done"}
        /\ outcome \in {"none", "ValueError"}
        /\ pc = "done" <=> outcome = "ValueError"

\* a training call with an unsupported mode and both sizes zero has failed
C7_Witness ==
    /\ cls = "TrainDataset"
    /\ mode \notin Modes
    /\ negative_sample_size = 0
    /\ pair_sample_size = 0
    /\ pc = "done"
    /\ outcome = "ValueError"

(***************************************************************************)
(* C3                                                                      *)
(***************************************************************************)
\* the slot (0-based) of the evaluated fact's own entity on the side of the mode
TrueSlot == IF mode = "head-batch" THEN positive_sample[1] ELSE positive_sample[3]

\* the fact obtained by putting entity e in the varying slot
Substituted(e) ==
    IF mode = "head-batch" THEN <<e, positive_sample[2], positive_sample[3]>>
                           ELSE <<positive_sample[1], positive_sample[2], e>>

TestReturned == cls = "TestDataset" /\ outcome = "returned"

\* C3: the filter array has nentity entries; the entry of the fact's own entity
\* is 0 and paired with that entity, even when the fact is in the all-true set;
\* every other entry i is -1 exactly when substituting i gives a fact of the
\* all-true set, else 0 (head-batch on the head slot, tail-batch on the tail).
C3_FilterFlags ==
    TestReturned =>
        /\ Len(filter_bias) = nentity
        /\ filter_bias[TrueSlot + 1] = 0
        /\ negative_sample[TrueSlot + 1] = TrueSlot
        /\ \A i \in 0..(nentity - 1) :
               i # TrueSlot =>
                   filter_bias[i + 1] = (IF Substituted(i) \in triple_set THEN -1 ELSE 0)

\* the evaluated fact is itself a known true fact and another candidate is filtered
C3_Witness ==
    /\ TestReturned
    /\ positive_sample \in triple_set
    /\ \E i \in 1..Len(filter_bias) : filter_bias[i] = -1

(***************************************************************************)
(* C4                                                                      *)
(***************************************************************************)
\* C4 (as stated): the candidate stored at every index i is i itself, filtered
\* or not, in both modes.
C4_CandidateIsIndex ==
    TestReturned =>
        \A i \in 0..(nentity - 1) : negative_sample[i + 1] = i

\* C4 (amended): the candidate array has nentity entries; at every index i whose
\* flag is 0 (the fact's own slot included) the candidate is i itself, and at
\* every filtered index (flag -1) it is the evaluated fact's own head
\* (head-batch) or tail (tail-batch), not i.
C4_CandidateOrTrueEntity ==
    TestReturned =>
        /\ Len(negative_sample) = nentity
        /\ \A i \in 0..(nentity - 1) :
               negative_sample[i + 1] = (IF filter_bias[i + 1] = 0 THEN i ELSE TrueSlot)

\* a filtered index holds the true entity instead of its own id
C4_Witness ==
    /\ TestReturned
    /\ \E i \in 0..(nentity - 1) :
           /\ filter_bias[i + 1] = -1
           /\ negative_sample[i + 1] # i

(***************************************************************************)
(* C8                                                                      *)
(***************************************************************************)
ForwardKeys == {<<triples[i][1], triples[i][2]>> : i \in 1..Len(triples)}
InverseKeys == {<<triples[i][3], 0 - triples[i][2] - 1>> : i \in 1..Len(triples)}

\* the facts (by position) that contribute to key k
Contributions(k) ==
    Cardinality({i \in 1..Len(triples) : <<triples[i][1], triples[i][2]>> = k})
  + Cardinality({i \in 1..Len(triples) : <<triples[i][3], 0 - triples[i][2] - 1>> = k})

\* C8: the keys of the frequency table are exactly the (head, relation) and
\* (tail, -relation-1) pairs of the facts; no forward key is an inverse key;
\* each count is 4 + contributions - 1; both lookups of __getitem__ find
\* their key; and for [(0,0,1),(1,0,2),(2,1,0)] the third fact alone
\* contributes to (2,1) and (0,-2), every key standing at the floor 4.
C8_FrequencyTable ==
    cls = "TrainDataset" =>
        /\ DOMAIN count = ForwardKeys \cup InverseKeys
        /\ ForwardKeys \cap InverseKeys = {}
        /\ \A k \in DOMAIN count : count[k] = 4 + Contributions(k) - 1
        /\ outcome # "KeyError"
        /\ pc # "idle" =>
               subsampling_weight =
                   count[<<positive_sample[1], positive_sample[2]>>]
                 + count[<<positive_sample[3], 0 - positive_sample[2] - 1>>]
        /\ triples = Scenario =>
               /\ DOMAIN count =
                      {<<0, 0>>, <<1, -1>>, <<1, 0>>, <<2, -1>>, <<2, 1>>, <<0, -2>>}
               /\ \A k \in DOMAIN count : count[k] = 4

\* a call found both counts of a fact whose keys were counted more than once
C8_Witness ==
    /\ cls = "TrainDataset"
    /\ pc = "neg"
    /\ \E k \in DOMAIN count : count[k] > 4
    /\ subsampling_weight > 8

(***************************************************************************)
(* C5                                                                      *)
(***************************************************************************)
\* the path evidence of the current example has been built (lines 67-103)
PathsBuilt ==
    /\ cls = "TrainDataset"
    /\ multi_path
    /\ pc \in {"negrel", "pairs", "pospair", "done"}

\* the relation ids stored in the kept (cut and padded) paths
KeptPathIds ==
    UNION {Range(rel_paths_for_batch[i]) : i \in 1..Len(rel_paths_for_batch)} \ {-1}

\* the relation ids of every candidate path of the example, at full length
AllPathIds ==
    UNION {Range(path_probs[idx][i].path) : i \in 1..Len(path_probs[idx])}

\* the negative relation x can be the result of the round about to run
CanReturn(x) == ENABLED (NegRelRound /\ negative_relation' = <<x>>)

\* C5 (as stated): the ids the negative relation is filtered against are exactly
\* the true relation plus the ids in the kept paths; no id of that set is
\* returned and every other id of [0, nrelation) can be.
C5_ExcludesKeptPaths ==
    PathsBuilt =>
        /\ RelationExclusion(positive_sample[2], weak_positive)
               = {positive_sample[2]} \cup KeptPathIds
        /\ pc = "negrel" =>
               \A x \in 0..(nrelation - 1) :
                   CanReturn(x) <=> x \notin ({positive_sample[2]} \cup KeptPathIds)

\* C5 (amended): exactly one negative relation id in [0, nrelation) is returned,
\* and the ids it is filtered against are the true relation plus the ids of
\* every path candidate of the example at full length (kept or dropped, cut or
\* not): no id of that set is returned and every other id of [0, nrelation)
\* can be.
C5_ExcludesAllPaths ==
    PathsBuilt =>
        /\ pc = "negrel" =>
               \A x \in 0..(nrelation - 1) :
                   CanReturn(x) <=> x \notin ({positive_sample[2]} \cup AllPathIds)
        /\ pc # "negrel" =>
               /\ Len(negative_relation) = 1
               /\ negative_relation[1] \in 0..(nrelation - 1)
               /\ negative_relation[1] \notin ({positive_sample[2]} \cup AllPathIds)

\* a negative relation was returned for an example with more candidates than
\* are kept
C5_Witness ==
    /\ PathsBuilt
    /\ outcome = "returned"
    /\ Len(path_probs[idx]) > max_n_cand
    /\ AllPathIds # {}
    /\ Len(negative_relation) = 1

(***************************************************************************)
(* C6                                                                      *)
(***************************************************************************)
\* row is path cut or right-padded with -1 to n slots
IsPadOrCut(row, path, n) ==
    /\ Len(row) = n
    /\ \A j \in 1..n : row[j] = (IF j <= Len(path) THEN path[j] ELSE -1)

\* C6: whatever the number of candidates and their lengths, the path tensor has
\* exactly max_n_cand rows of exactly max_steps slots and the reliability array
\* max_n_cand entries; each kept row is a candidate path cut or right-padded
\* with -1 to max_steps; every row beyond the candidate count is all -1 with
\* reliability 0.
C6_PathTensorShape ==
    PathsBuilt =>
        LET cands == path_probs[idx]
            kept == IF Len(cands) < max_n_cand THEN Len(cands) ELSE max_n_cand
        IN /\ Len(rel_paths_for_batch) = max_n_cand
           /\ Len(probs_for_batch) = max_n_cand
           /\ \A i \in 1..max_n_cand : Len(rel_paths_for_batch[i]) = max_steps
           /\ \A i \in 1..kept :
                  \E j \in 1..Len(cands) :
                      IsPadOrCut(rel_paths_for_batch[i], cands[j].path, max_steps)
           /\ \A i \in (kept + 1)..max_n_cand :
                  /\ \A j \in 1..max_steps : rel_paths_for_batch[i][j] = -1
                  /\ probs_for_batch[i] = 0

\* one candidate where two rows are kept, its path longer than max_steps
C6_Witness ==
    /\ PathsBuilt
    /\ Len(path_probs[idx]) = 1
    /\ max_n_cand = 2
    /\ Len(path_probs[idx][1].path) > max_steps
    /\ rel_paths_for_batch[2][1] = -1

(***************************************************************************)
(* C9                                                                      *)
(***************************************************************************)
\* the j-th pull a side serves returns that side's batch (j-1) mod its length
ServedInOrder ==
    \A s \in Sides :
        (data.side = s /\ served[s] >= 1) =>
            /\ SourceLen(s) >= 1
            /\ data.batch = (served[s] - 1) % SourceLen(s)

\* a step of one side's generator leaves the other side's position alone
SidesIndependent ==
    [][\A s \in Sides : (spc = "pulling" /\ cur = s) =>
            iterator'[Other(s)] = iterator[Other(s)]]_vars

\* C9 (as stated): for sources of any lengths every pull eventually returns a batch.
C9_EveryPullReturns == (spc = "pulling") ~> (spc = "ready")

\* C9 (amended): for two non-empty finite sources every pull eventually returns a
\* batch (there is no exhaustion signal); for sources of any length the j-th pull
\* a side serves returns that side's batch (j-1) mod its length, and a step or
\* restart of one side never moves the other side's position.
C9_NonEmptyRestart ==
    /\ (spc = "pulling" /\ SourceLen(cur) >= 1) ~> (spc = "ready")
    /\ []ServedInOrder
    /\ SidesIndependent

\* the head side has restarted (third batch served from a loader of two) while
\* the tail side, of a different length, has not
C9_Witness ==
    /\ dataloader_head = 2
    /\ dataloader_tail = 1
    /\ served["head"] = 3
    /\ data = [side |-> "head", batch |-> 0]
    /\ spc = "ready"

(***************************************************************************)
(* C10                                                                     *)
(***************************************************************************)
\* the loop of lines 45-65 is running (its condition holds, the mode is supported)
InNegLoop ==
    /\ cls = "TrainDataset"
    /\ pc = "neg"
    /\ Len(negative_sample_list) < negative_sample_size
    /\ mode \in Modes

\* the loop of lines 106-116 is running
InNegRelLoop == cls = "TrainDataset" /\ pc = "negrel"

\* the loop of lines 126-146 is running
InPairLoop ==
    /\ cls = "TrainDataset"
    /\ pc = "pairs"
    /\ Len(negative_pair_list) < pair_sample_size
    /\ mode \in Modes

\* some id of the draw range lies outside the loop's exclusion set
NegOpen ==
    /\ pc # "idle"
    /\ (0..(nentity - 1)) \ TrueEntities(mode, positive_sample) # {}
NegRelOpen ==
    /\ pc # "idle"
    /\ (0..(nrelation - 1)) \ RelationExclusion(positive_sample[2], weak_positive) # {}
PairOpen ==
    /\ pc # "idle"
    /\ (0..(nentity - 1)) \ EntityPool(mode, positive_sample[2]) # {}

\* C10: under fair random draws each of the three rejection loops exits whenever
\* some id of its draw range lies outside its exclusion set; when the exclusion
\* set covers the whole draw range (and the requested size is positive, so the
\* loop is entered) the loop is never left: there is no retry cap and no error,
\* and no example is returned.
C10_RejectionLoops ==
    /\ (InNegLoop /\ NegOpen) ~> ~InNegLoop
    /\ (InNegRelLoop /\ NegRelOpen) ~> ~InNegRelLoop
    /\ (InPairLoop /\ PairOpen) ~> ~InPairLoop
    /\ [][(InNegLoop /\ ~NegOpen) => (InNegLoop /\ outcome = "none")']_vars
    /\ [][(InNegRelLoop /\ ~NegRelOpen) => (InNegRelLoop /\ outcome = "none")']_vars
    /\ [][(InPairLoop /\ ~PairOpen) => (InPairLoop /\ outcome = "none")']_vars

\* the pair loop is stuck on a relation whose pool holds every entity, after the
\* entity-negative loop has exited with its negatives
C10_Witness ==
    /\ InPairLoop
    /\ ~PairOpen
    /\ negative_sample_size >= 1
    /\ Len(negative_sample) = negative_sample_size

====
